---- MODULE Spec2Model ----
(***************************************************************************)
(* Optimal-offset search and Haralick feature derivation of texNet:        *)
(* ImageFeatures.compute_chi_sum, ImageFeatures.create_haralick,           *)
(* ImageFeatures.create_matrix and FeaturesLists.create_matrix_list.       *)
(*                                                                         *)
(* numpy's float64 is modelled as a binary floating-point format with      *)
(* Precision significand bits, round-to-nearest-even, no exponent limit    *)
(* and a NaN.  A value is [k |-> "num", m |-> m, e |-> e], standing for    *)
(* m * 2^e with m odd (or m = e = 0), or NaN.                              *)
(***************************************************************************)
EXTENDS Integers, Sequences, FiniteSets, TLC

\* Significand bits of the model's floating-point format (53 in float64).
Precision == 5

----------------------------------------------------------------------------
(* Floating-point arithmetic                                               *)

NaN == [k |-> "nan", m |-> 0, e |-> 0]

IsNaN(x) == x.k = "nan"

Abs(n) == IF n < 0 THEN -n ELSE n

Min(a, b) == IF a < b THEN a ELSE b

RECURSIVE BitLen(_)
BitLen(n) == IF n = 0 THEN 0 ELSE 1 + BitLen(n \div 2)

RECURSIVE TrailingZeros(_)
TrailingZeros(n) == IF n % 2 = 1 THEN 0 ELSE 1 + TrailingZeros(n \div 2)

\* The canonical form of m * 2^e, which must be representable.
Num(m, e) ==
    IF m = 0 THEN [k |-> "num", m |-> 0, e |-> 0]
    ELSE LET t == TrailingZeros(Abs(m))
         IN  [k |-> "num", m |-> (IF m < 0 THEN -(Abs(m) \div 2^t) ELSE m \div 2^t),
              e |-> e + t]

\* n * 2^e rounded to Precision significand bits, ties to even.
Round(n, e) ==
    LET a == Abs(n)
        b == BitLen(a)
    IN  IF b <= Precision THEN Num(n, e)
        ELSE LET s  == b - Precision
                 q  == a \div 2^s
                 r  == a % 2^s
                 h  == 2^(s - 1)
                 q2 == IF r > h \/ (r = h /\ q % 2 = 1) THEN q + 1 ELSE q
             IN  Num(IF n < 0 THEN -q2 ELSE q2, e + s)

\* An integer array element converted to float.
FromInt(n) == Round(n, 0)

Zero == FromInt(0)

One == FromInt(1)

FNeg(x) == IF IsNaN(x) THEN NaN ELSE Num(-x.m, x.e)

FAdd(x, y) ==
    IF IsNaN(x) \/ IsNaN(y) THEN NaN
    ELSE IF x.m = 0 THEN y
    ELSE IF y.m = 0 THEN x
    ELSE IF x.e - y.e > 2 * Precision + 2 THEN x
    ELSE IF y.e - x.e > 2 * Precision + 2 THEN y
    ELSE LET lo == Min(x.e, y.e)
         IN  Round(x.m * 2^(x.e - lo) + y.m * 2^(y.e - lo), lo)

FSub(x, y) == FAdd(x, FNeg(y))

FMul(x, y) ==
    IF IsNaN(x) \/ IsNaN(y) THEN NaN ELSE Round(x.m * y.m, x.e + y.e)

\* x / y.  0/0 is NaN; x/0 with x # 0 (an infinity) does not arise: every
\* divisor below is a sum of non-negative entries or is guarded by the code.
FDiv(x, y) ==
    IF IsNaN(x) \/ IsNaN(y) THEN NaN
    ELSE IF y.m = 0 THEN NaN
    ELSE IF x.m = 0 THEN Zero
    ELSE LET t   == Precision + 2 + BitLen(Abs(y.m))
             a   == Abs(x.m) * 2^t
             d   == Abs(y.m)
             q   == a \div d
             st  == IF a % d = 0 THEN 0 ELSE 1
             neg == (x.m < 0) # (y.m < 0)
             n   == 2 * q + st
         IN  Round(IF neg THEN -n ELSE n, x.e - y.e - t - 1)

RECURSIVE ISqrt(_)
ISqrt(n) ==
    IF n < 2 THEN n
    ELSE LET s == 2 * ISqrt(n \div 4)
         IN  IF (s + 1) * (s + 1) <= n THEN s + 1 ELSE s

\* np.sqrt: NaN for a negative argument.
FSqrt(x) ==
    IF IsNaN(x) \/ x.m < 0 THEN NaN
    ELSE IF x.m = 0 THEN Zero
    ELSE LET t0 == 2 * Precision + 4 - BitLen(x.m)
             t  == IF (x.e - t0) % 2 = 0 THEN t0 ELSE t0 + 1
             n  == x.m * 2^t
             r  == ISqrt(n)
             st == IF r * r = n THEN 0 ELSE 1
         IN  Round(2 * r + st, ((x.e - t) \div 2) - 1)

\* np.power(x, n) for a small positive integer n.
FPow(x, n) == IF IsNaN(x) THEN NaN ELSE Round(x.m ^ n, x.e * n)

\* x < y; FALSE when either is NaN.
FLt(x, y) ==
    IF IsNaN(x) \/ IsNaN(y) THEN FALSE
    ELSE IF x.m <= 0 /\ y.m > 0 THEN x.m < y.m
    ELSE IF x.m < 0 /\ y.m = 0 THEN TRUE
    ELSE IF x.m >= 0 /\ y.m <= 0 THEN FALSE
    ELSE LET tx == x.e + BitLen(Abs(x.m))
             ty == y.e + BitLen(Abs(y.m))
             lo == Min(x.e, y.e)
         IN  IF tx # ty THEN (IF x.m > 0 THEN tx < ty ELSE tx > ty)
             ELSE x.m * 2^(x.e - lo) < y.m * 2^(y.e - lo)

\* x == y; FALSE when either is NaN.
FEq(x, y) == ~IsNaN(x) /\ ~IsNaN(y) /\ x = y

\* x <= y; FALSE when either is NaN.
FLe(x, y) == FLt(x, y) \/ FEq(x, y)

----------------------------------------------------------------------------
(* numpy reductions.  A matrix is a sequence of rows; the entry at grey     *)
(* levels (i, j) is matrix[i + 1][j + 1].                                  *)

\* An array of n elements, element c being f(c), built once.
Vector(n, f(_)) == [c \in 1..n |-> f(c)] \o <<>>

\* An n x n array, cell (r, s) being f(r, s), built once.
Matrix(n, f(_, _)) == Vector(n, LAMBDA r : Vector(n, LAMBDA s : f(r, s)))

RECURSIVE SeqSum(_, _, _)
\* acc + a[from] + a[from + 1] + ... , added left to right.
SeqSum(a, from, acc) ==
    IF from > Len(a) THEN acc ELSE SeqSum(a, from + 1, FAdd(acc, a[from]))

RECURSIVE Lanes(_, _, _)
\* The eight running sums of numpy's unrolled summation loop.
Lanes(a, r, at) ==
    IF at + 7 > Len(a) - (Len(a) % 8) THEN r
    ELSE Lanes(a, Vector(8, LAMBDA l : FAdd(r[l], a[at + l - 1])), at + 8)

\* np.sum of a contiguous float array of at most 128 elements (numpy's
\* pairwise summation: a plain loop below 8 elements, eight lanes above).
NpSum(a) ==
    IF Len(a) < 8 THEN SeqSum(a, 1, Zero)
    ELSE LET r   == Lanes(a, SubSeq(a, 1, 8), 9)
             res == FAdd(FAdd(FAdd(r[1], r[2]), FAdd(r[3], r[4])),
                         FAdd(FAdd(r[5], r[6]), FAdd(r[7], r[8])))
         IN  SeqSum(a, Len(a) - (Len(a) % 8) + 1, res)

\* matrix.ravel(): the rows one after the other.
Ravel(matrix) ==
    LET L == Len(matrix)
    IN  Vector(L * L, LAMBDA c : matrix[((c - 1) \div L) + 1][((c - 1) % L) + 1])

\* matrix.sum(axis=0): entry j is the sum over i of matrix[i][j].
FSumAxis0(matrix) ==
    Vector(Len(matrix), LAMBDA j :
        SeqSum(Vector(Len(matrix), LAMBDA i : matrix[i][j]), 2, matrix[1][j]))

\* matrix.sum(axis=1): entry i is the sum over j of matrix[i][j].
FSumAxis1(matrix) == Vector(Len(matrix), LAMBDA i : NpSum(matrix[i]))

RECURSIVE IntSum(_, _)
IntSum(a, from) == IF from > Len(a) THEN 0 ELSE a[from] + IntSum(a, from + 1)

\* The same reductions of an unsigned integer (count) matrix, which are exact.
ISumAxis0(matrix) ==
    Vector(Len(matrix), LAMBDA j : IntSum(Vector(Len(matrix), LAMBDA i : matrix[i][j]), 1))

ISumAxis1(matrix) == Vector(Len(matrix), LAMBDA i : IntSum(matrix[i], 1))

ISumAll(matrix) == IntSum(ISumAxis1(matrix), 1)

----------------------------------------------------------------------------
(* ImageFeatures.compute_chi_sum                                           *)

\* Values an element of np.divide's freshly allocated output can hold where
\* the where= mask is False: no out= array is passed, so these elements are
\* never written.
UninitValues == {FromInt(-1), Zero, FromInt(2)}

\* row_matrix: np.repeat(matrix.sum(axis=0), n).reshape(n, n) puts the
\* axis-0 sum of index r in every cell of row r.
row_matrix(matrix) ==
    LET t == ISumAxis0(matrix)
    IN  Matrix(Len(matrix), LAMBDA r, s : t[r])

\* col_matrix: the axis-1 sums laid out the same way, then transposed.
col_matrix(matrix) ==
    LET t == ISumAxis1(matrix)
    IN  Matrix(Len(matrix), LAMBDA r, s : t[s])

\* matrix_rc_totals, from row_matrix and col_matrix.
RcTotals(matrix, rm, cm) ==
    Matrix(Len(matrix), LAMBDA r, s :
        FDiv(FromInt(rm[r][s] * cm[r][s]), FromInt(ISumAll(matrix))))

matrix_rc_totals(matrix) == RcTotals(matrix, row_matrix(matrix), col_matrix(matrix))

\* expected_values: (matrix - matrix_rc_totals) ** 2, cell by cell.
expected_values(matrix, rc) ==
    Matrix(Len(matrix), LAMBDA r, s : FPow(FSub(FromInt(matrix[r][s]), rc[r][s]), 2))

\* The cells np.divide skips: where matrix_rc_totals != 0 is False.
Skipped(rc) == {c \in (1..Len(rc)) \X (1..Len(rc)) : FEq(rc[c[1]][c[2]], Zero)}

SkippedCells(matrix) == Skipped(matrix_rc_totals(matrix))

\* np.sum(np.divide(expected_values, matrix_rc_totals, where=...)): a cell
\* that is skipped keeps what the uninitialised output array out holds.
ChiSumOf(ev, rc, out) ==
    NpSum(Ravel(Matrix(Len(rc), LAMBDA r, s :
        IF FEq(rc[r][s], Zero) THEN out[<<r, s>>] ELSE FDiv(ev[r][s], rc[r][s]))))

ChiSumFrom(matrix, rc, out) == ChiSumOf(expected_values(matrix, rc), rc, out)

\* compute_chi_sum(matrix), with out the content of the uninitialised
\* output array in the skipped cells.
compute_chi_sum(matrix, out) == ChiSumFrom(matrix, matrix_rc_totals(matrix), out)

----------------------------------------------------------------------------
(* ImageFeatures.create_haralick                                           *)

RECURSIVE DotFrom(_, _, _, _)
DotFrom(x, w, from, acc) ==
    IF from > Len(x) THEN acc
    ELSE DotFrom(x, w, from + 1, FAdd(acc, FMul(x[from], FromInt(w[from]))))

\* np.dot of a float vector x and an integer vector w.
Dot(x, w) == DotFrom(x, w, 1, Zero)

\* np.apply_over_axes(np.sum, m, axes=(0, 1))[0, 0].
SumOverAxes(m) == NpSum(FSumAxis0(m))

\* m * weight, cell by cell.
Weighted(m, weight(_, _)) ==
    Matrix(Len(m), LAMBDA r, s : FMul(m[r][s], weight(r - 1, s - 1)))

\* The elements of a sequence that satisfy keep, in order.
SelectCells(a, keep(_)) ==
    LET at == {c \in 1..Len(a) : keep(c)}
        RECURSIVE Pick(_)
        Pick(c) == IF c > Len(a) THEN <<>>
                   ELSE IF c \in at THEN <<a[c]>> \o Pick(c + 1)
                   ELSE Pick(c + 1)
    IN  Pick(1)

homo_weight(i, j) == FDiv(One, FAdd(One, FromInt((i - j) * (i - j))))

con_weight(i, j) == FromInt((i - j) * (i - j))

\* k = np.arange(level), and k ** 2
Arange(level) == Vector(level, LAMBDA c : c - 1)

ArangeSquared(level) == Vector(level, LAMBDA c : (c - 1) * (c - 1))

\* p = matrix / matrix.sum()
Marginal(matrix) ==
    Matrix(Len(matrix), LAMBDA r, s : FDiv(matrix[r][s], NpSum(Ravel(matrix))))

\* np.dot(v, k)
Mean(v) == Dot(v, Arange(Len(v)))

\* np.sqrt(np.dot(v, k ** 2) - u ** 2)
Deviation(v, u) == FSqrt(FSub(Dot(v, ArangeSquared(Len(v))), FPow(u, 2)))

\* Lines 188-192: 1.0 if sx == 0.0 or sy == 0.0, else the correlation.
Correlation(p, ux, uy, sx, sy) ==
    IF FEq(sx, Zero) \/ FEq(sy, Zero) THEN One
    ELSE FMul(FDiv(FDiv(One, sx), sy),
              FSub(Dot(Ravel(p), Vector(Len(p) * Len(p),
                                        LAMBDA c : ((c - 1) \div Len(p)) * ((c - 1) % Len(p)))),
                   FMul(ux, uy)))

\* px_plus_y: entry c sums the cells with i + j = c.
PxPlusY(matrix) ==
    Vector(2 * Len(matrix), LAMBDA c :
        NpSum(SelectCells(Ravel(matrix),
                          LAMBDA d : ((d - 1) \div Len(matrix)) + ((d - 1) % Len(matrix)) = c - 1)))

\* np.apply_over_axes(np.sum, matrix * np.power(I + J - ux - uy, n), ...)
Cluster(matrix, ux, uy, n) ==
    SumOverAxes(Matrix(Len(matrix), LAMBDA r, s :
        FMul(matrix[r][s], FPow(FSub(FSub(FromInt(r - 1 + s - 1), ux), uy), n))))

\* The returned array, from the intermediate values.
Features(matrix, asm, p, ux, uy, sx, sy, pxy, mean) ==
    << SumOverAxes(Weighted(matrix, homo_weight)),
       asm,
       SumOverAxes(Weighted(matrix, con_weight)),
       FSqrt(asm),
       Correlation(p, ux, uy, sx, sy),
       mean,
       Deviation(pxy, mean),
       Cluster(matrix, ux, uy, 3),
       Cluster(matrix, ux, uy, 4) >>

HaralickOfMeans(matrix, p, px, py, ux, uy, pxy) ==
    Features(matrix,
             SumOverAxes(Matrix(Len(matrix), LAMBDA r, s : FPow(matrix[r][s], 2))),
             p, ux, uy, Deviation(px, ux), Deviation(py, uy), pxy, Mean(pxy))

HaralickOfMarginals(matrix, p, px, py) ==
    HaralickOfMeans(matrix, p, px, py, Mean(px), Mean(py), PxPlusY(matrix))

HaralickOf(matrix, p) == HaralickOfMarginals(matrix, p, FSumAxis0(p), FSumAxis1(p))

create_haralick(matrix) == HaralickOf(matrix, Marginal(matrix))

----------------------------------------------------------------------------
(* ImageFeatures.create_matrix, which hands its arguments to skimage's     *)
(* greycomatrix.  An image is a sequence of rows of grey levels.           *)

\* The grey levels of the model's images (0..255 in a uint8 image).
GreyLevels == {0, 1}

Levels == Cardinality(GreyLevels)

\* greycomatrix's pixel offset for a distance and an angle: the rounded
\* <<sin(angle) * distance, cos(angle) * distance>>, rows then columns, with
\* the angle taken as it is passed (greycomatrix reads it in radians).
Offset(d, a) ==
    CASE a = 0            -> <<0, d>>
      [] a = 90 /\ d = 1 -> <<1, 0>>
      [] a = 90 /\ d = 2 -> <<2, -1>>
      [] a = 90 /\ d = 3 -> <<3, -1>>

\* The co-occurrence counts of one offset: cell (i, j) counts the pixels of
\* grey level i whose neighbour at the offset lies in the image and has
\* grey level j.
GlcmCounts(image, d, a) ==
    LET rows == Len(image)
        cols == Len(image[1])
        off  == Offset(d, a)
        pairs(i, j) ==
            {q \in (1..rows) \X (1..cols) :
                /\ q[1] + off[1] \in 1..rows
                /\ q[2] + off[2] \in 1..cols
                /\ image[q[1]][q[2]] = i
                /\ image[q[1] + off[1]][q[2] + off[2]] = j}
    IN  Matrix(Levels, LAMBDA r, s : Cardinality(pairs(r - 1, s - 1)))

\* greycomatrix(image, distance, angle, symmetric=..., normed=...): the array
\* P[i][j][d][a], counts, or with normed each offset's counts divided by
\* their sum (by 1 if the sum is 0).
greycomatrix(image, distance, angle, symmetric, normed) ==
    LET cnt(d, a) ==
            LET c == GlcmCounts(image, distance[d], angle[a])
            IN  IF symmetric THEN Matrix(Levels, LAMBDA r, s : c[r][s] + c[s][r]) ELSE c
        cell(r, s, d, a) ==
            LET c == cnt(d, a)
                t == ISumAll(c)
            IN  IF normed
                THEN FDiv(FromInt(c[r][s]), FromInt(IF t = 0 THEN 1 ELSE t))
                ELSE c[r][s]
    IN  Matrix(Levels, LAMBDA r, s :
            Vector(Len(distance), LAMBDA d :
                Vector(Len(angle), LAMBDA a : cell(r, s, d, a))))

\* create_matrix(image, distance, angle, symmetric, normalise)
create_matrix(image, distance, angle, symmetric, normalise) ==
    greycomatrix(image, distance, angle, symmetric, normalise)

\* array[:, :, d, a] of a 4-D array (d, a counted from 1).
Slice(array, d, a) == Matrix(Len(array), LAMBDA r, s : array[r][s][d][a])

----------------------------------------------------------------------------
(* FeaturesLists.create_matrix_list                                        *)

\* np.argmax over a flat array a: the first NaN if there is one, else the
\* first greatest element (numpy keeps an element that is not <= the best
\* so far, and stops at a NaN).
RECURSIVE ArgmaxFrom(_, _, _)
ArgmaxFrom(a, at, best) ==
    IF IsNaN(a[best]) \/ at > Len(a) THEN best
    ELSE IF ~FLe(a[at], a[best]) THEN ArgmaxFrom(a, at + 1, at)
    ELSE ArgmaxFrom(a, at + 1, best)

argmax(a) == ArgmaxFrom(a, 2, 1)

\* The D x A score grid as one row-major array.
RavelGrid(grid) ==
    LET cols == Len(grid[1])
    IN  Vector(Len(grid) * cols,
               LAMBDA c : grid[((c - 1) \div cols) + 1][((c - 1) % cols) + 1])

\* np.unravel_index(flat, grid.shape), as <<distance index, angle index>>.
unravel_index(flat, grid) ==
    LET cols == Len(grid[1])
    IN  <<((flat - 1) \div cols) + 1, ((flat - 1) % cols) + 1>>

\* perms: itertools.product of the distance indices and the angle indices.
perms(distance, angle) ==
    Vector(Len(distance) * Len(angle),
           LAMBDA c : <<((c - 1) \div Len(angle)) + 1, ((c - 1) % Len(angle)) + 1>>)

\* The most images in a batch.
MaxImages == 2

\* The images a batch is drawn from.
Images ==
    { <<<<0, 0, 1>>, <<1, 0, 0>>, <<0, 1, 1>>>>,
      <<<<0, 0, 1>>, <<0, 0, 0>>, <<1, 0, 0>>>>,
      <<<<0, 1, 0>>, <<1, 0, 1>>, <<0, 1, 0>>>>,
      <<<<0, 0, 0>>, <<0, 0, 1>>, <<1, 0, 0>>>> }

\* The distances and angles arguments a call is given (never empty).
DistanceLists == { <<1>>, <<1, 2>>, <<1, 3>> }

AngleLists == { <<0>>, <<0, 90>> }

\* The most a cell of a count matrix handed to compute_chi_sum holds.
MaxCount == 2

\* The count matrices compute_chi_sum is applied to on its own.
CountMatrices == [1..Levels -> [1..Levels -> 0..MaxCount]]

\* The grey levels of the matrices create_haralick is applied to on its own.
HaralickLevels == {0, 1, 2}

\* The most pixel pairs such a matrix counts.
MaxPairs == 6

RECURSIVE CellSeqs(_, _)
\* The sequences of n counts that sum to at most t.
CellSeqs(n, t) ==
    IF n = 0 THEN {<<>>}
    ELSE UNION {{<<c>> \o q : q \in CellSeqs(n - 1, t - c)} : c \in 0..t}

\* The normalised matrices create_haralick is applied to on its own: every
\* count matrix of at most MaxPairs pairs, divided by its sum as
\* greycomatrix does with normed=True.
HaralickCounts ==
    LET L == Cardinality(HaralickLevels)
    IN  {Matrix(L, LAMBDA r, s : q[(r - 1) * L + s]) : q \in CellSeqs(L * L, MaxPairs)}

Normalised(counts) ==
    LET t == ISumAll(counts)
    IN  Matrix(Len(counts), LAMBDA r, s :
            FDiv(FromInt(counts[r][s]), FromInt(IF t = 0 THEN 1 ELSE t)))

VARIABLES
    pc,            \* where the call stands
    image_list,    \* create_matrix_list's arguments
    distances,
    angles,
    n,             \* index of the image of the for loop (from 1)
    i,             \* index into perms of the inner loop (from 1)
    chisum,        \* the D x A score grid
    max_chi,       \* <<distance index, angle index>> of the last argmax
    non_norm_mat,  \* the image's matrix of all candidates
    matrix_list,   \* the three lists returned
    inputs_list,
    haralick_list,
    calls,         \* history: every create_matrix call, in order
    mat_src,       \* history: the call that returned non_norm_mat
    scored,        \* history: per compute_chi_sum call, the call its slice is from
    featured,      \* history: per create_haralick call, the call its matrix is from
    arg,           \* the matrix a function applied on its own is given
    ret            \* and what it returned

vars == <<pc, image_list, distances, angles, n, i, chisum, max_chi, non_norm_mat,
          matrix_list, inputs_list, haralick_list, calls, mat_src, scored,
          featured, arg, ret>>

batch == <<image_list, distances, angles>>

lists == <<matrix_list, inputs_list, haralick_list>>

alone == <<arg, ret>>

RECURSIVE Batches(_)
\* The image lists of at most k images.
Batches(k) ==
    IF k = 0 THEN {<<>>}
    ELSE Batches(k - 1) \cup
         {Append(b, im) : b \in {c \in Batches(k - 1) : Len(c) = k - 1}, im \in Images}

\* Lines 81-87: the lists are empty and the score grid is all zeros.
Init ==
    /\ image_list \in Batches(MaxImages)
    /\ distances \in DistanceLists
    /\ angles \in AngleLists
    /\ pc = "image"
    /\ n = 1
    /\ i = 1
    /\ chisum = Vector(Len(distances), LAMBDA d : Vector(Len(angles), LAMBDA a : Zero))
    /\ max_chi = <<0, 0>>
    /\ non_norm_mat = <<>>
    /\ matrix_list = <<>>
    /\ inputs_list = <<>>
    /\ haralick_list = <<>>
    /\ calls = <<>>
    /\ mat_src = 0
    /\ scored = <<>>
    /\ featured = <<>>
    /\ arg = <<>>
    /\ ret = <<>>

\* The arguments of the create_matrix call of line 90; symmetric and
\* normalise take their defaults.
ScanCall(img) ==
    [image |-> img, distance |-> distances, angle |-> angles,
     symmetric |-> FALSE, normalise |-> FALSE]

\* A call for the first candidate pair whatever the scan selected.
OptimalCallFirst(img, best) ==
    [image |-> img, distance |-> <<distances[1]>>, angle |-> <<angles[1]>>,
     symmetric |-> FALSE, normalise |-> TRUE]

\* A call for the selected pair that asks for a symmetric matrix.
OptimalCallSymmetric(img, best) ==
    [image |-> img, distance |-> <<distances[best[1]]>>, angle |-> <<angles[best[2]]>>,
     symmetric |-> TRUE, normalise |-> TRUE]

\* The arguments of the create_matrix call of lines 98-100.
OptimalCall(img, best) ==
    [image |-> img, distance |-> <<distances[best[1]]>>, angle |-> <<angles[best[2]]>>,
     symmetric |-> FALSE, normalise |-> TRUE]

\* What a create_matrix call returns.
Built(call) ==
    create_matrix(image_list[call.image], call.distance, call.angle,
                  call.symmetric, call.normalise)

\* optimal_matrix[:, :, 0, 0], the argument of create_haralick.
HaralickInput(optimal_matrix) == Slice(optimal_matrix, 1, 1)

\* Lines 89-90: the next image's matrix of all candidates.
NextImage ==
    /\ pc = "image"
    /\ n <= Len(image_list)
    /\ non_norm_mat' = Built(ScanCall(n))
    /\ calls' = Append(calls, ScanCall(n))
    /\ mat_src' = Len(calls) + 1
    /\ i' = 1
    /\ pc' = "scan"
    /\ UNCHANGED <<batch, lists, alone, n, chisum, max_chi, scored, featured>>

\* The grid with the score of candidate perm written (line 93).
Scored(grid, perm, score) == [grid EXCEPT ![perm[1]][perm[2]] = score]

\* Line 94: the grid position of the greatest score.
MaxChi(grid) == unravel_index(argmax(RavelGrid(grid)), grid)

\* Line 95: the pair of grid position best is appended.
Appended(list, best) == Append(list, <<distances[best[1]], angles[best[2]]>>)

\* Lines 94-95, from the grid with the new score written.
Recorded(grid, best) ==
    /\ chisum' = grid
    /\ max_chi' = best
    /\ inputs_list' = Appended(inputs_list, best)

Rescored(grid) == Recorded(grid, MaxChi(grid))

\* Lines 93-95 for the slice of candidate perm.
ScoreSlice(perm, slice) ==
    \E out \in [SkippedCells(slice) -> UninitValues] :
        Rescored(Scored(chisum, perm, compute_chi_sum(slice, out)))

ScoreCandidate(perm) == ScoreSlice(perm, Slice(non_norm_mat, perm[1], perm[2]))

\* Lines 91-95: one candidate is scored, the grid's argmax recomputed and
\* its pair appended.
ScanStep ==
    /\ pc = "scan"
    /\ ScoreCandidate(perms(distances, angles)[i])
    /\ scored' = Append(scored, mat_src)
    /\ IF i < Len(distances) * Len(angles)
       THEN i' = i + 1 /\ pc' = "scan"
       ELSE i' = i /\ pc' = "optimal"
    /\ UNCHANGED <<batch, alone, n, non_norm_mat, matrix_list, haralick_list,
                   calls, mat_src, featured>>

\* Lines 101-105: the matrix and its features are appended.
Collected(optimal_matrix) ==
    /\ matrix_list' = Append(matrix_list, optimal_matrix)
    /\ haralick_list' =
           Append(haralick_list, create_haralick(HaralickInput(optimal_matrix)))

\* Lines 98-105: the normalised matrix of the selected pair and its features.
Optimal ==
    /\ pc = "optimal"
    /\ Collected(Built(OptimalCall(n, max_chi)))
    /\ calls' = Append(calls, OptimalCall(n, max_chi))
    /\ featured' = Append(featured, Len(calls) + 1)
    /\ n' = n + 1
    /\ pc' = "image"
    /\ UNCHANGED <<batch, alone, i, chisum, max_chi, non_norm_mat, inputs_list,
                   mat_src, scored>>

\* Line 108: the three lists are returned.
Return ==
    /\ pc = "image"
    /\ n > Len(image_list)
    /\ pc' = "done"
    /\ UNCHANGED <<batch, lists, alone, n, i, chisum, max_chi, non_norm_mat,
                   calls, mat_src, scored, featured>>

Next == NextImage \/ ScanStep \/ Optimal \/ Return

Spec == Init /\ [][Next]_vars

----------------------------------------------------------------------------
(* compute_chi_sum and create_haralick applied on their own                *)

Idle ==
    /\ image_list = <<>> /\ distances = <<>> /\ angles = <<>>
    /\ n = 1 /\ i = 1 /\ chisum = <<>> /\ max_chi = <<0, 0>>
    /\ non_norm_mat = <<>> /\ matrix_list = <<>> /\ inputs_list = <<>>
    /\ haralick_list = <<>> /\ calls = <<>> /\ mat_src = 0
    /\ scored = <<>> /\ featured = <<>>

idle == <<batch, lists, n, i, chisum, max_chi, non_norm_mat, calls, mat_src,
          scored, featured>>

InitChi == Idle /\ pc = "chi" /\ arg \in CountMatrices /\ ret = <<>>

\* compute_chi_sum(arg)
ChiSum ==
    /\ pc = "chi"
    /\ \E out \in [SkippedCells(arg) -> UninitValues] : ret' = compute_chi_sum(arg, out)
    /\ pc' = "chi_done"
    /\ UNCHANGED <<idle, arg>>

SpecChi == InitChi /\ [][ChiSum]_vars

InitHaralick ==
    Idle /\ pc = "haralick" /\ arg \in {Normalised(c) : c \in HaralickCounts} /\ ret = <<>>

\* create_haralick(arg)
Haralick ==
    /\ pc = "haralick"
    /\ ret' = create_haralick(arg)
    /\ pc' = "haralick_done"
    /\ UNCHANGED <<idle, arg>>

SpecHaralick == InitHaralick /\ [][Haralick]_vars

----------------------------------------------------------------------------
(* Properties of compute_chi_sum, under SpecChi                            *)

\* The total of row r and of column s of a count matrix.
RowTotal(matrix, r) == ISumAxis1(matrix)[r]

ColTotal(matrix, s) == ISumAxis0(matrix)[s]

\* matrix[i,j] = row_total[i] * col_total[j] / total in every cell, exactly.
Independent(matrix) ==
    \A r \in 1..Len(matrix), s \in 1..Len(matrix) :
        matrix[r][s] * ISumAll(matrix) = RowTotal(matrix, r) * ColTotal(matrix, s)

PositiveMargins(matrix) ==
    \A r \in 1..Len(matrix) : RowTotal(matrix, r) > 0 /\ ColTotal(matrix, r) > 0

\* C1: compute_chi_sum returns 0 for every count matrix whose cells are
\* exactly independent, symmetric or not.  Stated for the matrices with no
\* empty row and no empty column, where every cell is divided.
C1_IndependentScoresZero ==
    (pc = "chi_done" /\ Independent(arg) /\ PositiveMargins(arg)) => FEq(ret, Zero)

\* C2: compute_chi_sum of an all-zero matrix returns 0, and no NaN.
C2_AllZeroScoresZero ==
    (pc = "chi_done" /\ ISumAll(arg) = 0) => FEq(ret, Zero)

\* C8: for a matrix with a non-zero total, the cells whose expectation is 0
\* contribute exactly zero, so the score is the sum over the other cells
\* alone, a function of the matrix, and it is not negative.
C8_SkippedCellsContributeZero ==
    (pc = "chi_done" /\ ISumAll(arg) > 0) =>
        /\ ret = compute_chi_sum(arg, [c \in SkippedCells(arg) |-> Zero])
        /\ FLe(Zero, ret)

----------------------------------------------------------------------------
(* Properties of create_haralick, under SpecHaralick                       *)

\* All the probability mass of a normalised matrix lies in one row, or in
\* one column.
SingleRowOrColumn(matrix) ==
    /\ \E r, s \in 1..Len(matrix) : ~FEq(matrix[r][s], Zero)
    /\ \/ \E r \in 1..Len(matrix) :
             \A q, s \in 1..Len(matrix) : q # r => FEq(matrix[q][s], Zero)
       \/ \E s \in 1..Len(matrix) :
             \A r, q \in 1..Len(matrix) : q # s => FEq(matrix[r][q], Zero)

\* C7: when all the mass lies in a single row or a single column, the
\* correlation (position 4 of the vector, counted from 0) is exactly 1.0.
C7_ZeroVarianceCorrelationIsOne ==
    (pc = "haralick_done" /\ SingleRowOrColumn(arg)) => ret[5] = One

----------------------------------------------------------------------------
(* Properties of create_matrix_list, under Spec                            *)

\* The number of candidate pairs of an image's scan.
Candidates == Len(distances) * Len(angles)

\* The row-major index of a grid position and the pair it stands for.
FlatIndex(pos) == (pos[1] - 1) * Len(angles) + pos[2]

PairAt(pos) == <<distances[pos[1]], angles[pos[2]]>>

Last(list) == list[Len(list)]

\* The state holds k >= 1 scores of the image being scanned, the last of
\* them just written and its pair just appended.
ScoredSoFar == IF pc = "scan" THEN i - 1 ELSE IF pc = "optimal" THEN i ELSE 0

\* Among the first k cells of a row-major array, cell p is the first greatest.
FirstMaximiser(a, k, p) ==
    /\ p \in 1..k
    /\ \A q \in 1..k : FLe(a[q], a[p])
    /\ \A q \in 1..(p - 1) : FLt(a[q], a[p])

\* C3: the pair the optimal matrix of an image is built for is the first
\* row-major global maximiser of that image's score grid and is the last
\* pair appended in its scan; with all scores identical it is
\* (distances[0], angles[0]).
C3_SelectedIsFirstGlobalMaximiser ==
    (pc = "image" /\ n > 1) =>
        LET used == Last(calls)
            a    == RavelGrid(chisum)
        IN  /\ <<used.distance[1], used.angle[1]>> = PairAt(max_chi)
            /\ PairAt(max_chi) = Last(inputs_list)
            /\ FirstMaximiser(a, Candidates, FlatIndex(max_chi))
            /\ (\A q \in 1..Candidates : a[q] = a[1]) => max_chi = <<1, 1>>

\* C4: the three returned lists hold exactly one entry per input image.
C4_OneEntryPerImage ==
    pc = "done" =>
        /\ Len(matrix_list) = Len(image_list)
        /\ Len(inputs_list) = Len(image_list)
        /\ Len(haralick_list) = Len(image_list)

\* The score grid a scan would hold had no image been processed before:
\* this image's scores so far, zeros elsewhere.
FreshGrid ==
    Vector(Len(distances), LAMBDA d : Vector(Len(angles), LAMBDA a :
        IF FlatIndex(<<d, a>>) <= ScoredSoFar THEN chisum[d][a] ELSE Zero))

\* C5: what the scan of an image appends does not depend on the images
\* processed before it: each appended pair is the one the same scores give
\* on a grid that carries nothing over.
C5_ScanIndependentOfEarlierImages ==
    ScoredSoFar >= 1 => Last(inputs_list) = PairAt(MaxChi(FreshGrid))

\* Every cell of the score grid is a number that is not negative.
GridOrdinary ==
    \A d \in 1..Len(distances), a \in 1..Len(angles) : FLe(Zero, chisum[d][a])

\* C10: one pair is appended per candidate scored, and the pair appended
\* after the k-th score is the first row-major maximiser among the scores of
\* this image's candidates 0..k, never a candidate not yet scored for it.
\* Stated for the grids all of whose cells are non-negative numbers.
C10_AppendedIsBestSoFar ==
    (ScoredSoFar >= 1 /\ GridOrdinary) =>
        /\ Len(inputs_list) = (n - 1) * Candidates + ScoredSoFar
        /\ Last(inputs_list) = PairAt(max_chi)
        /\ FirstMaximiser(RavelGrid(chisum), ScoredSoFar, FlatIndex(max_chi))

\* The pair selected for image k: the last one appended in its scan.
SelectedPair(k) == inputs_list[k * Candidates]

\* Cell (r, s) of the normalised co-occurrence matrix of an image at a pair.
NormalisedCell(image, pair, r, s) ==
    LET c == GlcmCounts(image, pair[1], pair[2])
        t == ISumAll(c)
    IN  FDiv(FromInt(c[r][s]), FromInt(IF t = 0 THEN 1 ELSE t))

C9_ScoredRawFeaturedNormalised ==
    /\ \A k \in 1..Len(scored) :
          LET c == calls[scored[k]]
          IN  /\ ~c.normalise
              /\ ~c.symmetric
              /\ c.distance = distances
              /\ c.angle = angles
    /\ \A k \in 1..Len(featured) :
          LET c == calls[featured[k]]
          IN  /\ c.normalise
              /\ ~c.symmetric
              /\ Len(scored) >= k * Candidates
              /\ \A j \in 1..(k * Candidates) : scored[j] < featured[k]
              /\ \A j \in 1..Len(scored) : scored[j] # featured[k]
              /\ c.image = k
              /\ \A j \in ((k - 1) * Candidates + 1)..(k * Candidates) :
                    calls[scored[j]].image = k
              /\ <<c.distance, c.angle>> = <<<<SelectedPair(k)[1]>>, <<SelectedPair(k)[2]>>>>

\* Two images have been scanned over four candidates each and their
\* features computed.
C9_TwoImagesFeatured ==
    /\ pc = "done"
    /\ Candidates = 4
    /\ Len(scored) = 8
    /\ Len(featured) = 2

====
